---- MODULE Spec2Model ----
(***************************************************************************)
(* transform_instances.py: the batch driver main() and the transformation  *)
(* transform_instance_to_json() of one Cordeau MDVRPTW text instance into  *)
(* an MDHF-VRPTW-SPD document.                                             *)
(*                                                                         *)
(* Numbers.  Quantities, capacities, durations and window bounds are       *)
(* Python ints and are integers here.  Python floats are exact rationals   *)
(* here: a service time read from the file is an integer number of tenths, *)
(* a computed service time is a fraction [n, d] with d > 0, a draw of      *)
(* random.random() is an integer number of hundredths (0 .. 99).  Binary   *)
(* floating-point error is not modelled; round(x, 1) is round-half-even on *)
(* the exact value and yields an integer number of tenths.                 *)
(*                                                                         *)
(* Input.  A file is revealed line by line as the code reads it; a line is *)
(* a record whose kind says how the code's checks see it: "ok" with its    *)
(* numeric fields, "short" (fewer than 5 tokens on a customer line), "bad" *)
(* (a token that int()/float() rejects, or a token the code indexes is     *)
(* absent), or "eof" (the file has no such line).  Coordinates x, y are    *)
(* copied verbatim by the code and are left out.                           *)
(***************************************************************************)
EXTENDS Integers, Sequences, FiniteSets, TLC

(* ------------------------------ bounds --------------------------------- *)
\* main() runs over pr01 .. pr20; the model runs over pr01 .. pr<NumFiles>
NumFiles == 2
\* largest customer count and depot count a header of the model declares
MaxCustomers == 2
MaxDepots == 2

(* ------------------------- program constants --------------------------- *)
RANDOM_SEED == 42
\* has_time_windows = (vrp_type == 6)
MDVRPTW_TYPE == 6
\* PICKUP_HANDLING_FACTOR = 0.5, in hundredths
PICKUP_HANDLING_FACTOR == 50
\* BASE_OPERATION_TIME_FACTOR = 0.2, in tenths
BASE_OPERATION_TIME_FACTOR == 2
\* thresholds of the categorization draw, in hundredths
CATEGORY_A_THRESHOLD == 70
CATEGORY_B_THRESHOLD == 90
\* pickup factors, in ten-thousandths
CATEGORY_A_PICKUP_MIN == 500
CATEGORY_A_PICKUP_MAX == 2000
CATEGORY_B_PICKUP_MIN == 2000
CATEGORY_B_PICKUP_MAX == 5000
\* time_window_end = max_duration if max_duration > 0 else 1000
DEFAULT_WINDOW_END == 1000

\* capacity_factor in hundredths, fixed_cost, variable_cost in hundredths
VEHICLE_CLASSES ==
    << [name |-> "Class1", capacity_factor |-> 25,  fixed_cost |-> 60,  variable_cost |-> 45],
       [name |-> "Class2", capacity_factor |-> 50,  fixed_cost |-> 120, variable_cost |-> 60],
       [name |-> "Class3", capacity_factor |-> 80,  fixed_cost |-> 180, variable_cost |-> 75],
       [name |-> "Class4", capacity_factor |-> 120, fixed_cost |-> 240, variable_cost |-> 90] >>

(* ----------------------------- arithmetic ------------------------------ *)
Max(a, b) == IF a >= b THEN a ELSE b
Min(a, b) == IF a <= b THEN a ELSE b

\* math.floor(n / d) and math.ceil(n / d) for d > 0
Floor(n, d) == n \div d
Ceil(n, d) == -((-n) \div d)

\* int(n / d) for d > 0: Python's int() truncates toward zero
Trunc(n, d) == IF n >= 0 THEN n \div d ELSE -((-n) \div d)

\* round(n / d) to the nearest integer, ties to the even one, for d > 0
RoundHalfEven(n, d) ==
    LET q == n \div d
        r == n - q * d
    IN  IF 2 * r < d THEN q
        ELSE IF 2 * r > d THEN q + 1
        ELSE IF q % 2 = 0 THEN q ELSE q + 1

\* round(x, 1) of the fraction x = [n, d], as a number of tenths
Round1(x) == RoundHalfEven(10 * x.n, x.d)

RECURSIVE SumOf(_, _)
\* sum(f(s[1]), ..., f(s[Len(s)])) of a sequence of integers
SumOf(s, j) == IF j > Len(s) THEN 0 ELSE s[j] + SumOf(s, j + 1)

RECURSIVE MinOf(_, _)
\* min of a non-empty sequence of integers, from position j on
MinOf(s, j) == IF j = Len(s) THEN s[j] ELSE Min(s[j], MinOf(s, j + 1))

RECURSIVE MaxOf(_, _)
MaxOf(s, j) == IF j = Len(s) THEN s[j] ELSE Max(s[j], MaxOf(s, j + 1))

(* ------------------------------- state --------------------------------- *)
VARIABLES
    family,         \* which family of benchmark inputs the batch is drawn from
    run,            \* 1: the batch run; 2: its repetition from a fresh seed
    tape,           \* the file contents the first run has read, in order
    tapePos,        \* how much of tape the second run has read again
    stream,         \* the values the seeded generator has produced so far
    rngPos,         \* position of the global random stream (draws consumed)
    fileNo,         \* main(): loop variable i in range(1, 21)
    outFiles,       \* numbers of the output files that exist on disk
    pc,             \* position in main() / transform_instance_to_json()
    outcome,        \* how the last call of the loop body ended
    fault,          \* what the parser met in the current file
    rngAtStart,     \* rngPos when the current file's body began
    header,         \* the first line of the current file
    len_lines,      \* len(lines) once the code has met the end, else -1
    i,              \* line index of the parsing loops
    k,              \* position of "for customer in customers"
    depot_info, customers, depot_coords,
    smallest_vehicle_capacity,   \* in hundredths (capacity x 25)
    drawLog,        \* the draws of the current transformation, in order
    instance,       \* the assembled document
    refDocs         \* the documents of the first run, by file number

vars == << family, run, tape, tapePos, stream, rngPos, fileNo, outFiles, pc,
           outcome, fault, rngAtStart, header, len_lines, i, k, depot_info,
           customers, depot_coords, smallest_vehicle_capacity, drawLog,
           instance, refDocs >>

None == [none |-> TRUE]

(* ------------------------ the inputs of the model ---------------------- *)
\* "qty": demands around the smallest capacity, all three categories;
\* "plain": one kind of depot and customer, every way a file can be broken;
\* "fleet": return-only customers, depots of small, large and negative
\* capacity; "signed": a negative demand; "time": service times 0 and 10
\* against wide and narrow windows; "rerun": as "plain", run twice
Families == {"qty", "plain", "fleet", "signed", "time", "rerun"}

VrpTypes == {MDVRPTW_TYPE, 2}

\* first lines: the file is absent; main() cannot read int(first_line[2]);
\* main() can but the transformation cannot read its four ints; or all four
HeaderChoices ==
    {[kind |-> "missing"], [kind |-> "bad_main"], [kind |-> "bad_transform"]}
    \cup {[kind |-> "ok", vrp_type |-> t, num_customers |-> n, num_depots |-> m] :
            t \in VrpTypes, n \in 0..MaxCustomers, m \in 0..MaxDepots}

\* << route duration, vehicle capacity >> of a depot line
DepotValues ==
    CASE family = "qty"    -> {<<8, 8>>, <<8, 48>>}
      [] family = "fleet"  -> {<<0, 48>>, <<8, 8>>, <<20, -4>>}
      [] OTHER             -> {<<8, 48>>}

\* << service time in tenths, demand, window start, window end >>
CustomerValues ==
    CASE family = "qty"    -> {<<30, d, 0, 50>> : d \in {0, 10, 14}}
      [] family = "fleet"  -> {<<30, 0, 0, 50>>, <<30, 14, 0, 50>>}
      [] family = "signed" -> {<<30, -1, 0, 50>>, <<30, 14, 0, 50>>}
      [] family = "time"   -> {<<0, 14, 0, 50>>, <<100, 14, 5, 8>>}
      [] OTHER             -> {<<30, 14, 0, 50>>}

\* values of random.random(), in hundredths
RandomValues ==
    CASE family = "qty"    -> {0, 70, 90}
      [] family = "fleet"  -> {90}
      [] OTHER             -> {0, 90}

DepotLines ==
    {[kind |-> "eof"], [kind |-> "bad"]}
    \cup {[kind |-> "ok", duration |-> v[1], capacity |-> v[2]] : v \in DepotValues}

CustomerLines ==
    {[kind |-> "eof"], [kind |-> "short"], [kind |-> "bad"]}
    \cup {[kind |-> "ok", service_time |-> v[1], demand |-> v[2],
           tw_start |-> v[3], tw_end |-> v[4]] : v \in CustomerValues}

CoordLines == {[kind |-> "eof"], [kind |-> "bad"], [kind |-> "ok"]}

(* ---------------- reading the file and drawing from the stream --------- *)
Recording == family = "rerun" /\ run = 1
Replaying == run = 2

\* what the code can find where it reads next: anything of S in the first
\* run, what the first run found there in the second
Read(S) == IF Replaying THEN {tape[tapePos + 1]} \cap S ELSE S

HasRead(ln) ==
    /\ tape' = IF Recording THEN Append(tape, ln) ELSE tape
    /\ tapePos' = IF Replaying THEN tapePos + 1 ELSE tapePos

NoRead == UNCHANGED << tape, tapePos >>

\* random.seed(RANDOM_SEED) when the module is loaded: wherever the stream
\* was (pos), it is at its beginning again
SeedKeepsPosition(pos) == pos
Seeded(pos) == 0

\* the next value of the seeded stream: fixed once it has been produced
NextRandom(pos) == IF pos < Len(stream) THEN {stream[pos + 1]} ELSE RandomValues

HasDrawnTwice(v, kind) ==
    /\ stream' = IF Recording /\ rngPos >= Len(stream) THEN Append(stream, v) ELSE stream
    /\ rngPos' = rngPos + 2
    /\ drawLog' = Append(Append(drawLog, <<kind, k>>), <<kind, k>>)
HasDrawn(v, kind) ==
    /\ stream' = IF Recording /\ rngPos >= Len(stream) THEN Append(stream, v) ELSE stream
    /\ rngPos' = rngPos + 1
    /\ drawLog' = Append(drawLog, <<kind, k>>)

NoDraw == UNCHANGED << stream, rngPos, drawLog >>

\* random.randint(1, b) from the stream value v (hundredths): one call
RandInt(v, b) == 1 + (v * b) \div 100

(* -------------------------------- main --------------------------------- *)
InitIn(f) ==
    /\ family = f
    /\ run = 1
    /\ tape = << >>
    /\ tapePos = 0
    /\ stream = << >>
    /\ rngPos = Seeded(0)
    /\ fileNo = 1
    /\ outFiles = {}
    /\ pc = "main"
    /\ outcome = "none"
    /\ fault = "none"
    /\ rngAtStart = 0
    /\ header = None
    /\ len_lines = -1
    /\ i = 0
    /\ k = 0
    /\ depot_info = << >>
    /\ customers = << >>
    /\ depot_coords = << >>
    /\ smallest_vehicle_capacity = 0
    /\ drawLog = << >>
    /\ instance = None
    /\ refDocs = [f2 \in {} |-> None]

Init == \E f \in Families \ {"rerun"} : InitIn(f)

\* what every call of the loop body starts from
FreshLocals ==
    /\ fault' = "none"
    /\ rngAtStart' = rngPos
    /\ len_lines' = -1
    /\ i' = 0
    /\ k' = 0
    /\ depot_info' = << >>
    /\ customers' = << >>
    /\ depot_coords' = << >>
    /\ smallest_vehicle_capacity' = 0
    /\ drawLog' = << >>
    /\ instance' = None

\* the loop body ends with result r: main() goes on with the next file
EndFile(r) ==
    /\ outcome' = r
    /\ pc' = "main"
    /\ fileNo' = fileNo + 1

\* an exception leaves transform_instance_to_json; main() prints and goes on
Raise(what) ==
    /\ fault' = what
    /\ EndFile("error")

Finished == pc = "main" /\ fileNo > NumFiles

\* open(input_file) raises FileNotFoundError
MainFileNotFound ==
    /\ pc = "main" /\ fileNo <= NumFiles
    /\ \E h \in Read({[kind |-> "missing"]}) :
          /\ HasRead(h)
          /\ header' = h
    /\ FreshLocals
    /\ EndFile("not_found")
    /\ UNCHANGED << family, run, stream, rngPos, outFiles, refDocs >>

\* int(first_line[2]) raises in main(): except Exception
MainHeaderError ==
    /\ pc = "main" /\ fileNo <= NumFiles
    /\ \E h \in Read({[kind |-> "bad_main"]}) :
          /\ HasRead(h)
          /\ header' = h
    /\ FreshLocals
    /\ EndFile("error")
    /\ UNCHANGED << family, run, stream, rngPos, outFiles, refDocs >>

\* main() has read num_customers and calls transform_instance_to_json
MainTransformOpensOutput ==
    /\ pc = "main" /\ fileNo <= NumFiles
    /\ \E h \in Read(HeaderChoices \ {[kind |-> "missing"], [kind |-> "bad_main"]}) :
          /\ HasRead(h)
          /\ header' = h
    /\ FreshLocals
    /\ outcome' = "running"
    /\ pc' = "header"
    /\ outFiles' = outFiles \cup {fileNo}
    /\ UNCHANGED << family, run, stream, rngPos, fileNo, refDocs >>
MainTransform ==
    /\ pc = "main" /\ fileNo <= NumFiles
    /\ \E h \in Read(HeaderChoices \ {[kind |-> "missing"], [kind |-> "bad_main"]}) :
          /\ HasRead(h)
          /\ header' = h
    /\ FreshLocals
    /\ outcome' = "running"
    /\ pc' = "header"
    /\ UNCHANGED << family, run, stream, rngPos, fileNo, outFiles, refDocs >>

(* ------------------- transform_instance_to_json: parser ---------------- *)
fixed == << family, run, refDocs, outFiles >>

has_time_windows == header.vrp_type = MDVRPTW_TYPE
num_customers == header.num_customers
num_depots == header.num_depots

\* lines 60-64: the four ints of the first line
ParseHeader ==
    /\ pc = "header"
    /\ \/ /\ header.kind = "bad_transform"
          /\ Raise("header")
          /\ i' = i
       \/ /\ header.kind = "ok"
          /\ pc' = "depots"
          /\ i' = 1
          /\ UNCHANGED << fault, outcome, fileNo >>
    /\ NoRead /\ NoDraw
    /\ UNCHANGED << fixed, rngAtStart, header, len_lines, k, depot_info, customers,
                    depot_coords, smallest_vehicle_capacity, instance >>

\* lines 73-77: for i in range(1, num_depots + 1)
ParseDepot ==
    /\ pc = "depots"
    /\ \/ /\ i <= num_depots
          /\ \E ln \in Read(DepotLines) :
                /\ HasRead(ln)
                /\ \/ /\ ln.kind = "eof"            \* lines[i]: IndexError
                      /\ len_lines' = i
                      /\ Raise("missing_line")
                      /\ UNCHANGED << i, depot_info >>
                   \/ /\ ln.kind = "bad"            \* int(): ValueError
                      /\ Raise("non_numeric")
                      /\ UNCHANGED << i, depot_info, len_lines >>
                   \/ /\ ln.kind = "ok"
                      /\ depot_info' = Append(depot_info, << ln.duration, ln.capacity >>)
                      /\ i' = i + 1
                      /\ UNCHANGED << pc, fault, outcome, fileNo, len_lines >>
       \/ /\ i > num_depots
          /\ pc' = "customers"
          /\ NoRead
          /\ UNCHANGED << fault, outcome, fileNo, len_lines, i, depot_info >>
    /\ NoDraw
    /\ UNCHANGED << fixed, rngAtStart, header, k, customers, depot_coords,
                    smallest_vehicle_capacity, instance >>

\* lines 108-110: the window of a customer of an instance without windows;
\* << >> when max() of no depots raises ValueError
DefaultWindowOfNoDepots(info) ==
    IF info = << >>
    THEN << 0, DEFAULT_WINDOW_END >>
    ELSE LET max_duration == MaxOf([j \in 1..Len(info) |-> info[j][1]], 1)
         IN  << 0, IF max_duration > 0 THEN max_duration ELSE DEFAULT_WINDOW_END >>
DefaultWindow(info) ==
    IF info = << >>
    THEN << >>
    ELSE LET max_duration == MaxOf([j \in 1..Len(info) |-> info[j][1]], 1)
         IN  << 0, IF max_duration > 0 THEN max_duration ELSE DEFAULT_WINDOW_END >>

\* lines 117-125: the record of a parsed customer line; tw_in remembers
\* the window as parsed
Customer(id, ln, win) ==
    [id |-> id, service_time |-> ln.service_time, demand |-> ln.demand,
     tw_start |-> win[1], tw_end |-> win[2], tw_in |-> win]

\* lines 81-125: for i in range(num_depots + 1, num_depots + num_customers + 1)
ParseCustomer ==
    /\ pc = "customers"
    /\ \/ /\ i <= num_depots + num_customers
          /\ \E ln \in Read(CustomerLines) :
                /\ HasRead(ln)
                /\ \/ /\ ln.kind = "eof"            \* line 82
                      /\ len_lines' = i
                      /\ Raise("missing_line")
                      /\ UNCHANGED << i, customers >>
                   \/ /\ ln.kind = "short"          \* line 89
                      /\ Raise("short_line")
                      /\ UNCHANGED << i, customers, len_lines >>
                   \/ /\ ln.kind = "bad"            \* lines 94-105, 112
                      /\ Raise("non_numeric")
                      /\ UNCHANGED << i, customers, len_lines >>
                   \/ /\ ln.kind = "ok"
                      /\ ~has_time_windows
                      /\ DefaultWindow(depot_info) = << >>       \* line 108
                      /\ Raise("no_depots")
                      /\ UNCHANGED << i, customers, len_lines >>
                   \/ /\ ln.kind = "ok"
                      /\ has_time_windows \/ DefaultWindow(depot_info) # << >>
                      /\ customers' = Append(customers,
                            Customer(i - num_depots, ln,
                                     IF has_time_windows
                                     THEN << ln.tw_start, ln.tw_end >>
                                     ELSE DefaultWindow(depot_info)))
                      /\ i' = i + 1
                      /\ UNCHANGED << pc, fault, outcome, fileNo, len_lines >>
       \/ /\ i > num_depots + num_customers
          /\ pc' = "coords"
          /\ NoRead
          /\ UNCHANGED << fault, outcome, fileNo, len_lines, i, customers >>
    /\ NoDraw
    /\ UNCHANGED << fixed, rngAtStart, header, k, depot_info, depot_coords,
                    smallest_vehicle_capacity, instance >>

\* lines 129-137: the trailing depot coordinates; a missing line is a warning
ParseCoord ==
    /\ pc = "coords"
    /\ \/ /\ i <= num_depots + num_customers + num_depots
          /\ len_lines = -1
          /\ \E ln \in Read(CoordLines) :
                /\ HasRead(ln)
                /\ \/ /\ ln.kind = "eof"            \* line 137
                      /\ len_lines' = i
                      /\ fault' = "missing_coords"
                      /\ i' = i + 1
                      /\ UNCHANGED << pc, outcome, fileNo, depot_coords >>
                   \/ /\ ln.kind = "bad"            \* lines 132-134
                      /\ Raise("non_numeric")
                      /\ UNCHANGED << i, depot_coords, len_lines >>
                   \/ /\ ln.kind = "ok"
                      /\ depot_coords' = Append(depot_coords, [depot_id |-> i - num_depots])
                      /\ i' = i + 1
                      /\ UNCHANGED << pc, fault, outcome, fileNo, len_lines >>
       \/ /\ i <= num_depots + num_customers + num_depots
          /\ len_lines # -1                          \* i >= len(lines)
          /\ i' = i + 1
          /\ NoRead
          /\ UNCHANGED << pc, fault, outcome, fileNo, len_lines, depot_coords >>
       \/ /\ i > num_depots + num_customers + num_depots
          /\ pc' = "categorize"
          /\ NoRead
          /\ UNCHANGED << fault, outcome, fileNo, len_lines, i, depot_coords >>
    /\ k' = 1
    /\ NoDraw
    /\ UNCHANGED << fixed, rngAtStart, header, depot_info, customers,
                    smallest_vehicle_capacity, instance >>

(* ---------------- transform_instance_to_json: augmentation ------------- *)
parsed == << header, len_lines, i, depot_info, depot_coords >>

\* lines 148-153: the category of the draw u (hundredths)
Category(u) ==
    IF u < CATEGORY_A_THRESHOLD THEN "A"
    ELSE IF u < CATEGORY_B_THRESHOLD THEN "B"
    ELSE "C"

\* lines 144-153: for customer in customers: one random.random() each
Categorize ==
    /\ pc = "categorize"
    /\ \/ /\ k <= Len(customers)
          /\ \E u_i \in NextRandom(rngPos) :
                /\ HasDrawn(u_i, "category")
                /\ customers' = [customers EXCEPT ![k] =
                                    @ @@ [u |-> u_i, category |-> Category(u_i)]]
          /\ k' = k + 1
          /\ pc' = pc
       \/ /\ k > Len(customers)
          /\ pc' = "capacity"
          /\ NoDraw
          /\ UNCHANGED << k, customers >>
    /\ NoRead
    /\ UNCHANGED << fixed, parsed, fault, outcome, fileNo, rngAtStart,
                    smallest_vehicle_capacity, instance >>

\* line 156: min(depot_info, key=capacity)[1] * VEHICLE_CLASSES[0]['capacity_factor'],
\* in hundredths
SmallestVehicleCapacity(info) ==
    MinOf([j \in 1..Len(info) |-> info[j][2]], 1) * VEHICLE_CLASSES[1].capacity_factor

SmallestCapacity ==
    /\ pc = "capacity"
    /\ \/ /\ depot_info = << >>                        \* min() of nothing: ValueError
          /\ Raise("no_depots")
          /\ UNCHANGED << k, smallest_vehicle_capacity >>
       \/ /\ depot_info # << >>
          /\ smallest_vehicle_capacity' = SmallestVehicleCapacity(depot_info)
          /\ pc' = "quantities"
          /\ k' = 1
          /\ UNCHANGED << fault, outcome, fileNo >>
    /\ NoRead /\ NoDraw
    /\ UNCHANGED << fixed, parsed, rngAtStart, customers, instance >>

\* lines 162-163, 168-169: math.ceil(pickup_factor * delivery_qty), with
\* pickup_factor = lo + random.random() * (hi - lo); lo, hi in ten-thousandths
PickupOf(lo, hi, v, delivery_qty) ==
    Ceil((100 * lo + v * (hi - lo)) * delivery_qty, 1000000)

\* lines 175-177: the largest pickup of a category C customer
MaxReturn(custs) ==
    Min(3, Max(1, Ceil(15 * SumOf([j \in 1..Len(custs) |-> custs[j].demand], 1),
                       100 * Len(custs))))

\* lines 159-177: << delivery_qty, pickup_qty >> before the clamp
Synthesized(c, v, custs) ==
    IF c.category = "A"
    THEN << c.demand, PickupOf(CATEGORY_A_PICKUP_MIN, CATEGORY_A_PICKUP_MAX, v, c.demand) >>
    ELSE IF c.category = "B"
    THEN << c.demand, PickupOf(CATEGORY_B_PICKUP_MIN, CATEGORY_B_PICKUP_MAX, v, c.demand) >>
    ELSE << 0, RandInt(v, MaxReturn(custs)) >>

\* lines 180-182: the pickup after the clamp; cap in hundredths
ClampedWithoutFloorOfOne(delivery_qty, pickup_qty, cap) ==
    IF 100 * (delivery_qty + pickup_qty) > cap
    THEN Trunc(cap - 100 * delivery_qty, 100)
    ELSE pickup_qty
Clamped(delivery_qty, pickup_qty, cap) ==
    IF 100 * (delivery_qty + pickup_qty) > cap
    THEN Max(1, Trunc(cap - 100 * delivery_qty, 100))
    ELSE pickup_qty

\* lines 158-185: for customer in customers: one draw each
Quantity ==
    /\ pc = "quantities"
    /\ \/ /\ k <= Len(customers)
          /\ \E v \in NextRandom(rngPos) :
                /\ HasDrawn(v, "quantity")
                /\ LET q == Synthesized(customers[k], v, customers)
                   IN  customers' = [customers EXCEPT ![k] =
                          @ @@ [delivery_qty |-> q[1],
                                pickup_drawn |-> q[2],
                                pickup_qty |-> Clamped(q[1], q[2], smallest_vehicle_capacity)]]
          /\ k' = k + 1
          /\ pc' = pc
       \/ /\ k > Len(customers)
          /\ pc' = "service"
          /\ k' = k
          /\ NoDraw
          /\ UNCHANGED customers
    /\ NoRead
    /\ UNCHANGED << fixed, parsed, fault, outcome, fileNo, rngAtStart,
                    smallest_vehicle_capacity, instance >>

\* line 194: max(min(S * 0.2, 1.0), 0.5), in hundredths; S in tenths
BaseTime(S) == Max(Min(S * BASE_OPERATION_TIME_FACTOR, 100), 50)

\* lines 197-216: << delivery_service_time, pickup_service_time >>, fractions
ServiceTimes(S, delivery_qty, pickup_qty) ==
    LET base == BaseTime(S)
        total_qty == delivery_qty + pickup_qty
        rest == 10 * S - 2 * base
    IN  IF delivery_qty > 0 /\ pickup_qty > 0
        THEN << [n |-> base * total_qty + rest * delivery_qty, d |-> 100 * total_qty],
                [n |-> base * total_qty + rest * pickup_qty
                          + PICKUP_HANDLING_FACTOR * pickup_qty * total_qty,
                 d |-> 100 * total_qty] >>
        ELSE IF delivery_qty > 0
        THEN << [n |-> 10 * S, d |-> 100], [n |-> 0, d |-> 100] >>
        ELSE << [n |-> 0, d |-> 100],
                [n |-> 10 * S + PICKUP_HANDLING_FACTOR * pickup_qty, d |-> 100] >>

\* lines 227-229: the window end after the repair; total a fraction
NarrowedEnd(tw_start, tw_end, total) ==
    IF tw_start * total.d + total.n > tw_end * total.d
    THEN Floor(tw_start * total.d + total.n, total.d)
    ELSE tw_end
RepairedEnd(tw_start, tw_end, total) ==
    IF tw_start * total.d + total.n > tw_end * total.d
    THEN Ceil(tw_start * total.d + total.n, total.d)
    ELSE tw_end

\* lines 188-229: the customer with its service times and repaired window
Serviced(c) ==
    LET t == ServiceTimes(c.service_time, c.delivery_qty, c.pickup_qty)
        total_service_time == [n |-> t[1].n + t[2].n, d |-> t[1].d]
    IN  [c EXCEPT !.tw_end = RepairedEnd(c.tw_start, c.tw_end, total_service_time)]
        @@ [delivery_service_time |-> Round1(t[1]),
            pickup_service_time |-> Round1(t[2]),
            new_service_time |-> Round1(total_service_time)]

\* lines 188-229: for customer in customers (no draw, no read: one step)
AdjustServiceTimes ==
    /\ pc = "service"
    /\ customers' = [j \in 1..Len(customers) |-> Serviced(customers[j])]
    /\ pc' = "assemble"
    /\ NoRead /\ NoDraw
    /\ UNCHANGED << fixed, parsed, fault, outcome, fileNo, rngAtStart, k,
                    smallest_vehicle_capacity, instance >>

(* ------------- transform_instance_to_json: the document ---------------- *)
CountAfterFirst(custs, cat) == Cardinality({j \in 2..Len(custs) : custs[j].category = cat})
Count(custs, cat) == Cardinality({j \in 1..Len(custs) : custs[j].category = cat})

\* lines 232-255: metadata.statistics
Statistics(custs) ==
    LET total_delivery == SumOf([j \in 1..Len(custs) |-> custs[j].delivery_qty], 1)
        total_pickup == SumOf([j \in 1..Len(custs) |-> custs[j].pickup_qty], 1)
    IN  [nb_DeliveryWithLowReturn |-> Count(custs, "A"),
         nb_DeliveryWithSignificantReturn |-> Count(custs, "B"),
         nb_ReturnOnly |-> Count(custs, "C"),
         totalDeliveryQuantity |-> total_delivery,
         totalPickupQuantity |-> total_pickup,
         pickupToDeliveryRatio |->
            IF total_delivery > 0
            THEN [tenths |-> Round1([n |-> 100 * total_pickup, d |-> total_delivery])]
            ELSE [text |-> "N/A"]]

\* lines 263-271
VehicleTypes ==
    [j \in 1..Len(VEHICLE_CLASSES) |->
        [id |-> j, name |-> VEHICLE_CLASSES[j].name,
         capacityFactor |-> VEHICLE_CLASSES[j].capacity_factor,
         fixedCost |-> VEHICLE_CLASSES[j].fixed_cost,
         variableCost |-> VEHICLE_CLASSES[j].variable_cost]]

\* lines 288-295: the vehicles of a depot
VehiclesRoundedUp(base_capacity, duration) ==
    [j \in 1..Len(VEHICLE_CLASSES) |->
        [typeId |-> j,
         capacity |-> Ceil(base_capacity * VEHICLE_CLASSES[j].capacity_factor, 100),
         count |-> "unlimited",
         maxDuration |-> duration]]
Vehicles(base_capacity, duration) ==
    [j \in 1..Len(VEHICLE_CLASSES) |->
        [typeId |-> j,
         capacity |-> Floor(base_capacity * VEHICLE_CLASSES[j].capacity_factor, 100),
         count |-> "unlimited",
         maxDuration |-> duration]]

\* lines 274-297: depot_coords paired with depot_info by position
Depots(coords, info) ==
    [j \in 1..Min(Len(coords), Len(info)) |->
        [id |-> coords[j].depot_id,
         maxDuration |-> info[j][1],
         vehicles |-> Vehicles(info[j][2], info[j][1])]]

\* lines 300-315
CustomerEntry(c) ==
    [id |-> c.id,
     TotalServiceTime |-> c.new_service_time,
     deliveryServiceTime |-> c.delivery_service_time,
     pickupServiceTime |-> c.pickup_service_time,
     deliveryQuantity |-> c.delivery_qty,
     pickupQuantity |-> c.pickup_qty,
     category |-> c.category,
     timeWindow |-> [start |-> c.tw_start, end |-> c.tw_end]]

\* lines 242-315: the document of file number no
Document(no) ==
    [metadata |-> [instanceName |-> << "taha", no, "-n", num_customers >>,
                   randomSeed |-> RANDOM_SEED,
                   customerCount |-> num_customers,
                   depotCount |-> num_depots,
                   statistics |-> Statistics(customers)],
     vehicleTypes |-> VehicleTypes,
     depots |-> Depots(depot_coords, depot_info),
     customers |-> [j \in 1..Len(customers) |-> CustomerEntry(customers[j])]]

Assemble ==
    /\ pc = "assemble"
    /\ instance' = Document(fileNo)
    /\ pc' = "write"
    /\ NoRead /\ NoDraw
    /\ UNCHANGED << fixed, parsed, fault, outcome, fileNo, rngAtStart, k, customers,
                    smallest_vehicle_capacity >>

\* lines 318-322: the output file is opened, written, closed; main() goes on
Write ==
    /\ pc = "write"
    /\ outFiles' = outFiles \cup {fileNo}
    /\ refDocs' = IF Recording THEN refDocs @@ (fileNo :> instance) ELSE refDocs
    /\ EndFile("ok")
    /\ NoRead /\ NoDraw
    /\ UNCHANGED << family, run, parsed, fault, rngAtStart, k, customers,
                    smallest_vehicle_capacity, instance >>

(* ------------------------- a second, independent run ------------------- *)
\* the program is started again on the same files with an empty output
\* directory: the module is loaded again (line 18) and main() runs again
SecondRun ==
    /\ Finished
    /\ family = "rerun"
    /\ run = 1
    /\ run' = 2
    /\ rngPos' = Seeded(rngPos)
    /\ tapePos' = 0
    /\ fileNo' = 1
    /\ outFiles' = {}
    /\ outcome' = "none"
    /\ UNCHANGED << family, tape, stream, pc, fault, rngAtStart, header, len_lines,
                    i, k, depot_info, customers, depot_coords,
                    smallest_vehicle_capacity, drawLog, instance, refDocs >>

(* ----------------------------- specifications -------------------------- *)
Next ==
    \/ MainFileNotFound
    \/ MainHeaderError
    \/ MainTransform
    \/ ParseHeader
    \/ ParseDepot
    \/ ParseCustomer
    \/ ParseCoord
    \/ Categorize
    \/ SmallestCapacity
    \/ Quantity
    \/ AdjustServiceTimes
    \/ Assemble
    \/ Write

NextRerun == Next \/ SecondRun

Spec == Init /\ [][Next]_vars
SpecQty == InitIn("qty") /\ [][Next]_vars
SpecPlain == InitIn("plain") /\ [][Next]_vars
SpecFleet == InitIn("fleet") /\ [][Next]_vars
SpecSigned == InitIn("signed") /\ [][Next]_vars
SpecTime == InitIn("time") /\ [][Next]_vars
SpecRerun == InitIn("rerun") /\ [][NextRerun]_vars

(* ------------------------------- properties ---------------------------- *)
\* a document has been assembled for the current file (it is kept until
\* main() turns to the next file)
Produced == instance # None
\* the loop body of main() has just ended for file fileNo - 1
Ended == pc = "main" /\ outcome # "none"
Completed == pc = "main" /\ outcome = "ok"
Out == instance.customers

\* C1: in every document, every customer has deliveryQuantity + pickupQuantity
\* <= smallestVehicleCapacity = (minimum depot base capacity) x 0.25
C1_CombinedDemandWithinSmallestVehicle ==
    Produced =>
        \A j \in DOMAIN Out :
            100 * (Out[j].deliveryQuantity + Out[j].pickupQuantity)
                <= SmallestVehicleCapacity(depot_info)

\* C2: in every document, every customer has timeWindow.start +
\* TotalServiceTime <= timeWindow.end; the start is the one parsed (0 when
\* windows are synthesized) and the end is the parsed one or a later one
C2_WindowHoldsService ==
    Produced =>
        \A j \in DOMAIN Out :
            /\ 10 * Out[j].timeWindow.start + Out[j].TotalServiceTime
                   <= 10 * Out[j].timeWindow.end
            /\ Out[j].timeWindow.start = customers[j].tw_in[1]
            /\ ~has_time_windows => Out[j].timeWindow.start = 0
            /\ Out[j].timeWindow.end >= customers[j].tw_in[2]

\* a document in which a window had to be widened to a non-integer need
C2_Witness ==
    /\ Produced
    /\ \E j \in DOMAIN Out :
          /\ Out[j].timeWindow.end > customers[j].tw_in[2]
          /\ Out[j].TotalServiceTime % 10 # 0
          /\ Out[j].timeWindow.start > 0

\* C3: every customer whose categorization draw is >= 0.90 ends with
\* deliveryQuantity = 0 and 1 <= pickupQuantity <= 3, clamp or no clamp
C3_ReturnOnlyQuantities ==
    \A j \in DOMAIN customers :
        ("pickup_qty" \in DOMAIN customers[j] /\ customers[j].u >= 90) =>
            /\ customers[j].category = "C"
            /\ customers[j].delivery_qty = 0
            /\ customers[j].pickup_qty >= 1
            /\ customers[j].pickup_qty <= 3

\* a return-only customer whose drawn pickup of 3 the clamp has reduced
C3_Witness ==
    /\ Produced
    /\ \E j \in DOMAIN customers :
          /\ customers[j].u >= 90
          /\ customers[j].pickup_drawn = 3
          /\ customers[j].pickup_qty = 2
          /\ Out[j].deliveryQuantity = 0 /\ Out[j].pickupQuantity = 2

Stat == instance.metadata.statistics
CountsAndTotals ==
    /\ Stat.nb_DeliveryWithLowReturn + Stat.nb_DeliveryWithSignificantReturn
          + Stat.nb_ReturnOnly = instance.metadata.customerCount
    /\ Stat.totalDeliveryQuantity >= 0
    /\ Stat.totalPickupQuantity >= 0

FleetShape(j) ==
    LET dep == instance.depots[j]
        base == depot_info[j][2]
    IN  /\ Len(dep.vehicles) = 4
        /\ \A t \in 1..4 :
              /\ dep.vehicles[t].typeId = t
              /\ 100 * dep.vehicles[t].capacity <= base * VEHICLE_CLASSES[t].capacity_factor
              /\ base * VEHICLE_CLASSES[t].capacity_factor < 100 * (dep.vehicles[t].capacity + 1)
              /\ dep.vehicles[t].count = "unlimited"
              /\ dep.vehicles[t].maxDuration = depot_info[j][1]
FleetNonDecreasing(j) ==
    \A t \in 1..3 :
        instance.depots[j].vehicles[t].capacity <= instance.depots[j].vehicles[t + 1].capacity

\* C6 as stated: every depot of the document has 4 vehicles, Type1..Type4,
\* capacity floor(base x factor), capacities non-decreasing, count unlimited,
\* maxDuration the depot's route duration
C6_Fleet_AsStated ==
    Produced => \A j \in DOMAIN instance.depots : FleetShape(j) /\ FleetNonDecreasing(j)

\* C6 amended: capacities are non-decreasing for depots of base capacity >= 0
C6_Fleet ==
    Produced =>
        \A j \in DOMAIN instance.depots :
            /\ FleetShape(j)
            /\ depot_info[j][2] >= 0 => FleetNonDecreasing(j)

\* a document with two depots of different durations and capacities >= 0,
\* one of whose capacities is rounded down
C6_Witness ==
    /\ Produced
    /\ Len(instance.depots) = 2
    /\ depot_info[1][2] >= 0 /\ depot_info[2][2] >= 0
    /\ instance.depots[1].maxDuration # instance.depots[2].maxDuration
    /\ instance.depots[1].vehicles[3].capacity = 6

ListedFaults == {"short_line", "non_numeric", "missing_line", "missing_coords"}
NoOutputBeforeAssembly ==
    /\ pc # "main" => fileNo \notin outFiles
    /\ (Ended /\ outcome = "error") => (fileNo - 1) \notin outFiles

\* C7 as stated: a transformation of a malformed input (short customer line,
\* non-numeric token, fewer lines than the header requires) ends in an error
\* and there is no output file; the file is written only after assembly
C7_MalformedNoOutput_AsStated ==
    /\ (Ended /\ fault \in ListedFaults) =>
           (outcome = "error" /\ (fileNo - 1) \notin outFiles)
    /\ NoOutputBeforeAssembly

\* C7 amended: the same, except that missing trailing depot-coordinate lines
\* are only a warning
C7_MalformedNoOutput ==
    /\ (Ended /\ fault \in ListedFaults \ {"missing_coords"}) =>
           (outcome = "error" /\ (fileNo - 1) \notin outFiles)
    /\ NoOutputBeforeAssembly

\* the second file has a short customer line after a first file was written
C7_Witness ==
    /\ Ended /\ fault = "short_line" /\ outcome = "error"
    /\ fileNo - 1 = 2
    /\ outFiles = {1}

\* C8: for inputs with service times >= 0 and demands >= 0, both quantities
\* and the three service times of every customer are >= 0
C8_NonNegative ==
    (Produced /\ \A j \in DOMAIN customers :
                    customers[j].service_time >= 0 /\ customers[j].demand >= 0)
    => \A j \in DOMAIN Out :
          /\ Out[j].deliveryQuantity >= 0
          /\ Out[j].pickupQuantity >= 0
          /\ Out[j].deliveryServiceTime >= 0
          /\ Out[j].pickupServiceTime >= 0
          /\ Out[j].TotalServiceTime >= 0

\* the draws of a transformation of n customers: n categorization draws in
\* customer order, then n quantity draws in customer order
Reference(n) ==
    [j \in 1..(2 * n) |-> IF j <= n THEN << "category", j >> ELSE << "quantity", j - n >>]

\* C9: the stream is drawn from only by the two loops, one categorization
\* draw per customer and then one quantity draw per customer, in customer
\* order: 2n draws when the transformation completes
C9_DrawOrder ==
    /\ rngPos - rngAtStart = Len(drawLog)
    /\ Len(drawLog) <= 2 * Len(customers)
    /\ drawLog = SubSeq(Reference(Len(customers)), 1, Len(drawLog))
    /\ (pc \in {"service", "assemble", "write"} \/ Completed) =>
           (Len(customers) = num_customers /\ drawLog = Reference(num_customers))

\* a completed transformation of two customers of categories A and C
C9_Witness ==
    /\ Completed
    /\ Len(customers) = 2
    /\ customers[1].category = "A" /\ customers[2].category = "C"
    /\ rngPos - rngAtStart = 4

Failed == Ended /\ outcome \in {"error", "not_found"}

\* C10 as stated: a failed transformation has consumed no draw
C10_FailureDrawsNothing_AsStated == Failed => rngPos = rngAtStart

\* C10 amended: a failed transformation has consumed no draw, unless it
\* failed at the smallest-capacity computation of an instance without
\* depots, after the categorization draws of its customers
C10_FailureDrawsNothing ==
    Failed =>
        \/ rngPos = rngAtStart
        \/ /\ fault = "no_depots"
           /\ has_time_windows
           /\ num_depots = 0
           /\ drawLog = SubSeq(Reference(num_customers), 1, num_customers)

\* the second file fails while parsing after the first has consumed draws
C10_Witness ==
    /\ Failed /\ fileNo - 1 = 2
    /\ fault = "non_numeric"
    /\ rngAtStart = 4
    /\ rngPos = 4

====
